---- MODULE Spec2Model ----
(***************************************************************************)
(* File upload backend: the MSAL bearer-token middleware                   *)
(* (fileupload/middleware.py), the upload / list / health views            *)
(* (fileupload/views.py) and the Azure blob storage service                *)
(* (fileupload/azure_storage.py).                                          *)
(*                                                                         *)
(* Strings that the code takes apart or concatenates (paths, the           *)
(* Authorization header, user ids, file names, blob names) are sequences   *)
(* of one-character strings.  A compact JWT is one symbol of such a        *)
(* sequence; what PyJWT reads out of it is given by TokenTable.            *)
(***************************************************************************)
EXTENDS Integers, Sequences, FiniteSets, TLC

(* ------------------------------ bounds --------------------------------- *)

\* number of requests, which the host runtime may process concurrently
NReq == 2

\* the clock is read at seconds 0..MaxTime
MaxTime == 1

\* number of distinct values uuid.uuid4() can return
NUuid == 2

Slots == 1..NReq

(* --------------------------- string helpers ---------------------------- *)

Range(s) == {s[k] : k \in 1..Len(s)}

\* str.startswith
StartsWith(s, p) == Len(s) >= Len(p) /\ SubSeq(s, 1, Len(p)) = p

\* str.find: first index at which p occurs in s, 0 when it does not occur
Find(s, p) ==
  LET hits == {k \in 1..(Len(s) - Len(p) + 1) : SubSeq(s, k, k + Len(p) - 1) = p}
  IN IF hits = {} THEN 0 ELSE CHOOSE k \in hits : \A m \in hits : k <= m

\* s.split(sep)[1] for a string s that starts with sep: the text between the
\* leading sep and the next occurrence of sep (or the end of the string)
SplitSecond(s, sep) ==
  LET rest == SubSeq(s, Len(sep) + 1, Len(s))
      j == Find(rest, sep)
  IN IF j = 0 THEN rest ELSE SubSeq(rest, 1, j - 1)

\* index of the last "." of a name, 0 when there is none
LastDot(name) ==
  LET dots == {k \in 1..Len(name) : name[k] = "."}
  IN IF dots = {} THEN 0 ELSE CHOOSE k \in dots : \A m \in dots : m <= k

Digits == <<"0", "1", "2", "3", "4", "5", "6", "7", "8", "9">>

TwoDigits(n) == <<Digits[((n \div 10) % 10) + 1], Digits[(n % 10) + 1]>>

(* ------------------------------ constants ------------------------------ *)

PathUpload == <<"/", "a", "p", "i", "/", "u", "p", "l", "o", "a", "d", "/">>
PathFiles == <<"/", "a", "p", "i", "/", "f", "i", "l", "e", "s", "/">>
PathHealth == <<"/", "a", "p", "i", "/", "h", "e", "a", "l", "t", "h", "/">>
PathAdmin == <<"/", "a", "d", "m", "i", "n", "/">>

\* a path below /admin/
PathAdminLogin == PathAdmin \o <<"l", "o", "g", "i", "n", "/">>

\* MSALAuthMiddleware.PUBLIC_PATHS
PUBLIC_PATHS == {PathAdmin, PathHealth}

Bearer == <<"B", "e", "a", "r", "e", "r", " ">>
Basic == <<"B", "a", "s", "i", "c", " ">>

\* max_size = 50 * 1024 * 1024
max_size == 50 * 1024 * 1024

\* settings.AZURE_STORAGE_CONTAINER_NAME
container_name == "uploads"

(* ------------------------------- tokens -------------------------------- *)

\* The compact JWTs that requests carry.  Ta, Tb: all three identity claims;
\* Tn: no oid and no name claim; Tx: exp = -1, before every reading of the clock;
\* Tm: not a JWT at all.
Tokens == {"Ta", "Tb", "Tn", "Tx", "Tm"}

TokenTable(t) ==
  CASE t = "Ta" -> [wellformed |-> TRUE,
                    payload |-> [oid |-> <<"a">>, preferred_username |-> "a@example.com",
                                 name |-> "User A", exp |-> 1000]]
    [] t = "Tb" -> [wellformed |-> TRUE,
                    payload |-> [oid |-> <<"b">>, preferred_username |-> "b@example.com",
                                 name |-> "User B", exp |-> 1000]]
    [] t = "Tn" -> [wellformed |-> TRUE,
                    payload |-> [preferred_username |-> "n@example.com", exp |-> 1000]]
    [] t = "Tx" -> [wellformed |-> TRUE,
                    payload |-> [oid |-> <<"a">>, preferred_username |-> "a@example.com",
                                 name |-> "User A", exp |-> -1]]
    [] OTHER -> [wellformed |-> FALSE, payload |-> [k \in {} |-> k]]

NoClaims == [k \in {} |-> k]

\* dict.get(key, default)
Get(d, key, default) == IF key \in DOMAIN d THEN d[key] ELSE default

\* the token text parsed as a compact JWT: one symbol of Tokens, anything
\* else (the empty string, several words) has not enough segments
Parse(token) ==
  IF Len(token) = 1 /\ token[1] \in Tokens
  THEN TokenTable(token[1])
  ELSE [wellformed |-> FALSE, payload |-> NoClaims]

\* jwt.get_unverified_header(token): DecodeError unless the token parses
GetUnverifiedHeader(token) ==
  IF Parse(token).wellformed THEN "none" ELSE "DecodeError"

\* options={"verify_signature": False}
VerifySignature == FALSE

\* PyJWT 2.x decode_complete: when verify_signature is false, verify_exp
\* (never set by the middleware) defaults to false as well
VerifyExp == VerifySignature

\* PyJWT _validate_exp: the token is expired when exp <= now
Expired(payload, t) == "exp" \in DOMAIN payload /\ payload.exp <= t

\* jwt.decode(token, options={"verify_signature": False}) at clock t:
\* the exception raised ("none" when it returns) and the claims returned
JwtDecode(token, t) ==
  LET p == Parse(token)
  IN IF ~p.wellformed THEN [exc |-> "DecodeError", claims |-> NoClaims]
     ELSE IF VerifyExp /\ Expired(p.payload, t)
          THEN [exc |-> "ExpiredSignatureError", claims |-> NoClaims]
          ELSE [exc |-> "none", claims |-> p.payload]

\* the exception classes of PyJWT that the middleware names in its handlers
IsInstance(exc, cls) ==
  \/ exc = cls
  \/ cls = "InvalidTokenError" /\ exc \in {"ExpiredSignatureError", "DecodeError"}
  \/ cls = "Exception" /\ exc # "none"

(* ------------------------------ requests ------------------------------- *)

\* a request attribute that was never set (hasattr is false)
Absent == [absent |-> TRUE]

\* getattr(obj, name, default)
GetAttr(v, default) == IF v = Absent THEN default ELSE v

\* request.FILES without a 'file' entry
NoFile == [present |-> FALSE]

\* the file most requests carry: of exactly the maximum size
SampleFile ==
  [present |-> TRUE, name |-> <<"x", ".", "t">>, size |-> max_size, content_type |-> "text/plain"]

FileSizes == {max_size, max_size + 1}

Files ==
  {NoFile} \cup {[SampleFile EXCEPT !.size = s] : s \in FileSizes}

Paths == {PathUpload, PathFiles, PathHealth, PathAdmin, PathAdminLogin}

\* values of the Authorization header: none, another scheme, 'Bearer <token>'
Headers == {<<>>, Basic \o <<"Ta">>} \cup {Bearer \o <<t>> : t \in Tokens}

Anonymous == <<"a", "n", "o", "n", "y", "m", "o", "u", "s">>

\* requests that arrive through the middleware chain: an upload of the sample
\* file with no header, another scheme, and the tokens of caller a, of the
\* caller without oid and the undecodable one; an upload of every file by
\* caller a; listings by every caller; the health path with every kind of
\* header; the admin paths
GatedRequests ==
  {[gated |-> TRUE, path |-> PathUpload, header |-> h, file |-> SampleFile] :
     h \in Headers \ {Bearer \o <<"Tx">>, Bearer \o <<"Tb">>}}
  \cup
  {[gated |-> TRUE, path |-> PathUpload, header |-> Bearer \o <<"Ta">>, file |-> f] :
     f \in Files}
  \cup
  {[gated |-> TRUE, path |-> PathFiles, header |-> Bearer \o <<t>>, file |-> NoFile] :
     t \in {"Ta", "Tb", "Tn", "Tx"}}
  \cup
  {[gated |-> TRUE, path |-> PathHealth, header |-> h, file |-> NoFile] :
     h \in {<<>>, Basic \o <<"Ta">>} \cup {Bearer \o <<t>> : t \in {"Ta", "Tx", "Tm"}}}
  \cup
  {[gated |-> TRUE, path |-> PathAdmin, header |-> <<>>, file |-> NoFile],
   [gated |-> TRUE, path |-> PathAdminLogin, header |-> Bearer \o <<"Ta">>, file |-> NoFile]}

\* requests that a caller builds and hands to a view method itself, as
\* fileupload/tests.py does (RequestFactory, then view.get), without setting
\* user_info
DirectRequests ==
  {[gated |-> FALSE, path |-> PathFiles, header |-> <<>>, file |-> NoFile]}

NoRequest == [gated |-> FALSE, path |-> <<>>, header |-> <<>>, file |-> NoFile]

NoResponse == [status |-> 0]

\* what has been invoked on behalf of a request: the view method, whether
\* AzureBlobStorageService() was called, the calls of upload_file / list_blobs,
\* the calls sent to the backend, the uuid4 drawn, the step that raised
NoTrace ==
  [handler |-> "none", constructed |-> FALSE, gateway_calls |-> 0, backend_calls |-> 0,
   uuid |-> 0, failure |-> "none"]

\* fileupload/urls.py mounted under /api/ (the paths the tests request)
Route(path) ==
  CASE path = PathUpload -> "upload"
    [] path = PathFiles -> "list"
    [] path = PathHealth -> "health"
    [] OTHER -> "other"

(* --------------------------- storage service --------------------------- *)

\* AzureBlobStorageService.__init__: the exception it raises, "none" when the
\* service is constructed.  sdk is what DefaultAzureCredential() and
\* BlobServiceClient(...) do: "none" or the exception they raise.
ServiceInit(account, sdk) ==
  IF account = ""
  THEN [type |-> "ValueError", msg |-> <<"AZURE_STORAGE_ACCOUNT_NAME must be configured">>]
  ELSE IF sdk # "none"
       THEN [type |-> sdk, msg |-> <<sdk>>]
       ELSE [type |-> "none", msg |-> <<>>]

\* what the SDK constructors can do
SdkInitOutcomes == {"none", "ClientAuthenticationError"}

\* original_filename = filename or file.name
OriginalFilename(filename, file) == IF filename # <<>> THEN filename ELSE file.name

\* an extension taken after the first '.' instead of the last
FileExtension_FirstDot(name) ==
  IF "." \in Range(name) THEN SubSeq(name, Find(name, <<".">>) + 1, Len(name)) ELSE <<>>

\* original_filename.split('.')[-1] if '.' in original_filename else ''
FileExtension(name) ==
  IF "." \in Range(name) THEN SubSeq(name, LastDot(name) + 1, Len(name)) ELSE <<>>

\* str(uuid.uuid4()): the k-th value, a string of fixed length
Uuid(k) == <<"u", Digits[k + 1]>>

\* datetime.utcnow().strftime('%Y%m%d_%H%M%S') at clock t (seconds of one minute)
Timestamp(t) ==
  <<"2", "0", "2", "5", "0", "1", "0", "1", "_", "0", "0", "0", "0">> \o TwoDigits(t)


\* a blob name without the unique id
BlobName_NoUuid(user_id, timestamp, unique_id, file_extension) ==
  IF user_id # <<>>
  THEN user_id \o <<"/">> \o timestamp \o <<".">> \o file_extension
  ELSE timestamp \o <<".">> \o file_extension

\* the blob name upload_file constructs
BlobName(user_id, timestamp, unique_id, file_extension) ==
  IF user_id # <<>>
  THEN user_id \o <<"/">> \o timestamp \o <<"_">> \o unique_id \o <<".">> \o file_extension
  ELSE timestamp \o <<"_">> \o unique_id \o <<".">> \o file_extension


\* an upload_file that re-raises the exception with its own type
WrapUpload_KeepType(e) ==
  [type |-> e.type, msg |-> <<"Failed to upload file to Azure Blob Storage: ">> \o e.msg]

\* an upload_file that raises its own message without the original one
WrapUpload_DropMessage(e) ==
  [type |-> "Exception", msg |-> <<"Failed to upload file to Azure Blob Storage: ">>]

\* except Exception as e: raise Exception(f"Failed to upload file ...: {str(e)}")
WrapUpload(e) ==
  [type |-> "Exception", msg |-> <<"Failed to upload file to Azure Blob Storage: ">> \o e.msg]

\* except Exception as e: raise Exception(f"Failed to list blobs: {str(e)}")
WrapList(e) ==
  [type |-> "Exception", msg |-> <<"Failed to list blobs: ">> \o e.msg]

\* the loop of list_blobs over the backend listing
FilterBlobs(listing, user_id) ==
  LET keep(b) == ~(user_id # <<>> /\ ~StartsWith(b.name, user_id \o <<"/">>))
      kept == SelectSeq(listing, keep)
  IN [k \in 1..Len(kept) |-> [name |-> kept[k].name, size |-> kept[k].size]]

\* the characters of blob names in the order of their code points
Alphabet ==
  <<".", "/", "0", "1", "2", "3", "4", "5", "6", "7", "8", "9", "_",
    "a", "b", "c", "d", "e", "f", "g", "h", "i", "j", "k", "l", "m",
    "n", "o", "p", "q", "r", "s", "t", "u", "v", "w", "x", "y", "z">>

Ord(c) == CHOOSE k \in 1..Len(Alphabet) : Alphabet[k] = c

\* s comes before t in the container's listing, which Azure returns in
\* lexicographical order of the blob names
LexLess(s, t) ==
  \E k \in 1..(Len(s) + 1) :
    /\ k <= Len(t)
    /\ SubSeq(s, 1, k - 1) = SubSeq(t, 1, k - 1)
    /\ k = Len(s) + 1 \/ Ord(s[k]) < Ord(t[k])

\* an upload that leaves only the new blob in the container
PutBlob_Replace(listing, b) == <<b>>

\* blob_client.upload_blob(data, overwrite=True): an existing blob of that
\* name is replaced, a new one takes its place in the container's listing
PutBlob(listing, b) ==
  IF \E k \in 1..Len(listing) : listing[k].name = b.name
  THEN [k \in 1..Len(listing) |-> IF listing[k].name = b.name THEN b ELSE listing[k]]
  ELSE LET before == SelectSeq(listing, LAMBDA x : LexLess(x.name, b.name))
           after == SelectSeq(listing, LAMBDA x : ~LexLess(x.name, b.name))
       IN before \o <<b>> \o after

\* what the backend can do with one upload: get_blob_client raises, the
\* upload_blob call raises, or the blob is stored
UploadOutcomes ==
  {[at |-> "get_blob_client", type |-> "ValueError"],
   [at |-> "upload_blob", type |-> "HttpResponseError"],
   [at |-> "done", type |-> "none"]}

\* what the backend can do with one listing
ListOutcomes == {"none", "HttpResponseError"}

\* what the container holds when the process starts: a blob that an earlier
\* upload of caller a has left
InitialStores ==
  LET a1 == [name |-> BlobName(<<"a">>, Timestamp(0), Uuid(1), <<"t">>), size |-> max_size]
  IN {<<a1>>}

(* -------------------------------- state -------------------------------- *)

VARIABLES
  pc,               \* pc[i]: where request i is
  request,          \* request[i]: path, Authorization header, FILES
  user_info,        \* request.user_info
  token_validated,  \* request.token_validated
  blob_name,        \* blob_name built by upload_file for request i
  response,         \* the response returned for request i
  trace,            \* what was invoked on behalf of request i
  store,            \* the container: blobs in the backend's enumeration order
  now,              \* datetime.utcnow() at its last reading, in seconds
  account_name      \* settings.AZURE_STORAGE_ACCOUNT_NAME

vars == <<pc, request, user_info, token_validated, blob_name, response, trace,
          store, now, account_name>>

Init ==
  /\ pc = [i \in Slots |-> "idle"]
  /\ request = [i \in Slots |-> NoRequest]
  /\ user_info = [i \in Slots |-> Absent]
  /\ token_validated = [i \in Slots |-> FALSE]
  /\ blob_name = [i \in Slots |-> <<>>]
  /\ response = [i \in Slots |-> NoResponse]
  /\ trace = [i \in Slots |-> NoTrace]
  /\ store \in InitialStores
  /\ now = 0
  /\ account_name \in {"", "acct"}

\* requests are numbered in the order of their arrival
FreeSlot(i) == pc[i] = "idle" /\ \A j \in 1..(i - 1) : pc[j] # "idle"

(* ------------------------------ middleware ----------------------------- *)

\* an allow-list that has lost the health path
IsPublicPath_AdminOnly(path) == StartsWith(path, PathAdmin)

\* an allow-list matched by equality instead of by prefix
IsPublicPath_Exact(path) == path \in PUBLIC_PATHS

\* any(request.path.startswith(path) for path in self.PUBLIC_PATHS)
IsPublicPath(path) == \E p \in PUBLIC_PATHS : StartsWith(path, p)


\* a gate that only looks whether an Authorization header is there
HeaderOk_AnyHeader(header) == header # <<>>

\* auth_header.startswith('Bearer ')
HeaderOk(header) == StartsWith(header, Bearer)


\* a gate that takes the user id from the sub claim
UserInfoOf_Sub(claims) ==
  [user_id |-> Get(claims, "sub", <<>>),
   email |-> Get(claims, "preferred_username", ""),
   name |-> Get(claims, "name", "")]

\* a gate that leaves out the fields whose claim is missing
UserInfoOf_DropMissing(claims) ==
  LET src == [user_id |-> "oid", email |-> "preferred_username", name |-> "name"]
      present == {f \in DOMAIN src : src[f] \in DOMAIN claims}
  IN [f \in present |-> claims[src[f]]]

\* request.user_info as the middleware builds it from the claims
UserInfoOf(claims) ==
  [user_id |-> Get(claims, "oid", <<>>),
   email |-> Get(claims, "preferred_username", ""),
   name |-> Get(claims, "name", "")]

\* a gate that answers 403 to what it rejects
Reject_Forbidden(error, message) ==
  [pass |-> FALSE, user_info |-> Absent, token_validated |-> FALSE,
   response |-> [status |-> 403, body |-> [error |-> error, message |-> message]]]

\* the JsonResponse(..., status=401) the middleware returns
Reject(error, message) ==
  [pass |-> FALSE, user_info |-> Absent, token_validated |-> FALSE,
   response |-> [status |-> 401, body |-> [error |-> error, message |-> message]]]

\* MSALAuthMiddleware.__call__ up to the call of get_response: either the
\* 401 response it returns, or the attributes it sets on the request
GateOutcome(r, t) ==
  IF IsPublicPath(r.path)
  THEN [pass |-> TRUE, user_info |-> Absent, token_validated |-> FALSE,
        response |-> NoResponse]
  ELSE IF ~HeaderOk(r.header)
  THEN Reject("Missing or invalid Authorization header", "Please provide a valid Bearer token")
  ELSE
    LET token == SplitSecond(r.header, Bearer)
        h == GetUnverifiedHeader(token)
        d == JwtDecode(token, t)
        exc == IF h # "none" THEN h ELSE d.exc
    IN IF exc = "none"
       THEN [pass |-> TRUE, user_info |-> UserInfoOf(d.claims), token_validated |-> TRUE,
             response |-> NoResponse]
       ELSE IF IsInstance(exc, "ExpiredSignatureError")
       THEN Reject("Token expired", "Your authentication token has expired")
       ELSE IF IsInstance(exc, "InvalidTokenError")
       THEN Reject("Invalid token", exc)
       ELSE Reject("Authentication failed", exc)

\* a request arrives and runs through MSALAuthMiddleware.__call__
Gate(i) ==
  /\ FreeSlot(i)
  /\ \E r \in GatedRequests :
       LET g == GateOutcome(r, now)
       IN /\ request' = [request EXCEPT ![i] = r]
          /\ user_info' = [user_info EXCEPT ![i] = g.user_info]
          /\ token_validated' = [token_validated EXCEPT ![i] = g.token_validated]
          /\ response' = [response EXCEPT ![i] = g.response]
          /\ pc' = [pc EXCEPT ![i] = IF g.pass THEN "view" ELSE "done"]
  /\ UNCHANGED <<blob_name, trace, store, now, account_name>>

\* a caller hands a request to a view method without the middleware
Direct(i) ==
  /\ FreeSlot(i)
  /\ \E r \in DirectRequests : request' = [request EXCEPT ![i] = r]
  /\ pc' = [pc EXCEPT ![i] = "view"]
  /\ UNCHANGED <<user_info, token_validated, blob_name, response, trace, store, now,
                 account_name>>

(* -------------------------------- views -------------------------------- *)

\* the user_id both views read from the request
ViewUserId(info) == Get(GetAttr(info, NoClaims), "user_id", Anonymous)


\* a size check that also refuses a file of exactly the maximum size
Validate_Inclusive(file) ==
  IF ~file.present THEN "No file provided"
  ELSE IF file.size >= max_size THEN "File too large"
  ELSE "ok"

\* a view that answers a missing file with the size error
Validate_NoFileTooLarge(file) ==
  IF ~file.present \/ file.size > max_size THEN "File too large" ELSE "ok"

\* the two checks FileUploadView.post makes on request.FILES
Validate(file) ==
  IF ~file.present THEN "No file provided"
  ELSE IF file.size > max_size THEN "File too large"
  ELSE "ok"

\* the label FileUploadView.post gives an exception of the try block
UploadErrorLabel(e) ==
  IF e.type = "ValueError" THEN "Configuration error" ELSE "Upload failed"

\* the label FileListView.get gives an exception of the try block
ListErrorLabel(e) ==
  IF e.type = "ValueError" THEN "Configuration error" ELSE "Failed to retrieve files"

\* an error body without its message
ErrorResponse_NoMessage(status, error, message) ==
  [status |-> status, body |-> [error |-> error]]

\* Response({'error': ..., 'message': ...}, status=...)
ErrorResponse(status, error, message) ==
  [status |-> status, body |-> [error |-> error, message |-> message]]

Respond(i, r) ==
  /\ response' = [response EXCEPT ![i] = r]
  /\ pc' = [pc EXCEPT ![i] = "done"]

\* FileUploadView.post with the upload_file it calls; utcnow() reads a clock
\* that has not gone back since its last reading
FileUploadView_post(i) ==
  /\ pc[i] = "view"
  /\ Route(request[i].path) = "upload"
  /\ LET file == request[i].file
         v == Validate(file)
     IN IF v = "No file provided"
        THEN /\ Respond(i, ErrorResponse(400, v,
                   <<"Please include a file in the request with key \"file\"">>))
             /\ trace' = [trace EXCEPT ![i].handler = "upload"]
             /\ UNCHANGED <<blob_name, store, now>>
        ELSE IF v = "File too large"
        THEN /\ Respond(i, ErrorResponse(400, v,
                   <<"File size exceeds maximum allowed size of 50.0MB">>))
             /\ trace' = [trace EXCEPT ![i].handler = "upload"]
             /\ UNCHANGED <<blob_name, store, now>>
        ELSE \E sdk \in SdkInitOutcomes, u \in 1..NUuid, t \in now..MaxTime,
                o \in UploadOutcomes :
               LET e == ServiceInit(account_name, sdk)
                   key == BlobName(ViewUserId(user_info[i]), Timestamp(t), Uuid(u),
                                   FileExtension(OriginalFilename(<<>>, file)))
               IN IF e.type # "none"
                  THEN /\ Respond(i, ErrorResponse(500, UploadErrorLabel(e), e.msg))
                       /\ trace' = [trace EXCEPT ![i].handler = "upload",
                                                 ![i].constructed = TRUE,
                                                 ![i].failure = "init"]
                       /\ UNCHANGED <<blob_name, store, now>>
                  ELSE IF o.type # "none"
                  THEN LET w == WrapUpload([type |-> o.type, msg |-> <<o.type>>])
                       IN /\ Respond(i, ErrorResponse(500, UploadErrorLabel(w), w.msg))
                          /\ trace' = [trace EXCEPT ![i].handler = "upload",
                                                    ![i].constructed = TRUE,
                                                    ![i].gateway_calls = @ + 1,
                                                    ![i].backend_calls =
                                                      IF o.at = "upload_blob" THEN @ + 1 ELSE @,
                                                    ![i].failure = o.at]
                          /\ now' = t
                          /\ UNCHANGED <<blob_name, store>>
                  ELSE /\ now' = t
                       /\ blob_name' = [blob_name EXCEPT ![i] = key]
                       /\ store' = PutBlob(store, [name |-> key, size |-> file.size])
                       /\ trace' = [trace EXCEPT ![i].handler = "upload",
                                                 ![i].constructed = TRUE,
                                                 ![i].gateway_calls = @ + 1,
                                                 ![i].backend_calls = @ + 1,
                                                 ![i].uuid = u]
                       /\ Respond(i, [status |-> 201,
                                      body |-> [message |-> <<"File uploaded successfully">>,
                                                data |-> [success |-> TRUE,
                                                          blob_name |-> key,
                                                          blob_url |-> <<account_name, container_name, key>>,
                                                          original_filename |-> OriginalFilename(<<>>, file),
                                                          size |-> file.size,
                                                          content_type |-> file.content_type]]])
  /\ UNCHANGED <<request, user_info, token_validated, account_name>>

\* FileListView.get
FileListView_get(i) ==
  /\ pc[i] = "view"
  /\ Route(request[i].path) = "list"
  /\ \E sdk \in SdkInitOutcomes, o \in ListOutcomes :
       LET e == ServiceInit(account_name, sdk)
       IN IF e.type # "none"
          THEN /\ Respond(i, ErrorResponse(500, ListErrorLabel(e), e.msg))
               /\ trace' = [trace EXCEPT ![i].handler = "list",
                                         ![i].constructed = TRUE,
                                         ![i].failure = "init"]
          ELSE IF o # "none"
          THEN LET w == WrapList([type |-> o, msg |-> <<o>>])
               IN /\ Respond(i, ErrorResponse(500, ListErrorLabel(w), w.msg))
                  /\ trace' = [trace EXCEPT ![i].handler = "list",
                                            ![i].constructed = TRUE,
                                            ![i].gateway_calls = @ + 1,
                                            ![i].backend_calls = @ + 1,
                                            ![i].failure = "list_blobs"]
          ELSE LET blobs == FilterBlobs(store, ViewUserId(user_info[i]))
               IN /\ Respond(i, [status |-> 200,
                                 body |-> [message |-> <<"Files retrieved successfully">>,
                                           count |-> Len(blobs),
                                           data |-> blobs]])
                  /\ trace' = [trace EXCEPT ![i].handler = "list",
                                            ![i].constructed = TRUE,
                                            ![i].gateway_calls = @ + 1,
                                            ![i].backend_calls = @ + 1]
  /\ UNCHANGED <<request, user_info, token_validated, blob_name, store, now, account_name>>

\* HealthCheckView.get
HealthCheckView_get(i) ==
  /\ pc[i] = "view"
  /\ Route(request[i].path) = "health"
  /\ Respond(i, [status |-> 200,
                 body |-> [status |-> "healthy",
                           message |-> <<"File upload service is running">>]])
  /\ trace' = [trace EXCEPT ![i].handler = "health"]
  /\ UNCHANGED <<request, user_info, token_validated, blob_name, store, now, account_name>>

\* a path that fileupload/urls.py does not serve: the framework answers
OtherView(i) ==
  /\ pc[i] = "view"
  /\ Route(request[i].path) = "other"
  /\ Respond(i, [status |-> 404, body |-> [detail |-> "framework"]])
  /\ trace' = [trace EXCEPT ![i].handler = "other"]
  /\ UNCHANGED <<request, user_info, token_validated, blob_name, store, now, account_name>>

Next ==
  \/ \E i \in Slots : Gate(i)
  \/ \E i \in Slots : Direct(i)
  \/ \E i \in Slots : FileUploadView_post(i)
  \/ \E i \in Slots : FileListView_get(i)
  \/ \E i \in Slots : HealthCheckView_get(i)
  \/ \E i \in Slots : OtherView(i)

Spec == Init /\ [][Next]_vars

(* ------------------- the storage service called alone ------------------ *)

\* names of the files handed to upload_file: one dot, several dots, no dot,
\* a leading dot, a trailing dot
KeyFileNames ==
  {<<"x", ".", "t">>, <<"a", ".", "b", ".", "c">>, <<"n">>, <<".", "h">>, <<"a", ".">>}

\* the filename argument: None (the empty sequence here, both are falsy), a
\* name with a dot, a name without
FilenameArgs == {<<>>, <<"c", ".", "d">>, <<"e">>}

\* the user_id argument: None or '' (the empty sequence, both are falsy), 'a'
OwnerArgs == {<<>>, <<"a">>}

\* service.upload_file(file, filename, user_id) called on a constructed
\* service, as AzureBlobStorageServiceTests does: one call, whose arguments
\* are kept in request[1] and whose dict or exception in response[1]
UploadFileCall ==
  /\ pc[1] = "idle"
  /\ ServiceInit(account_name, "none").type = "none"
  /\ \E name \in KeyFileNames, filename \in FilenameArgs, user_id \in OwnerArgs,
        u \in 1..NUuid, t \in now..MaxTime, o \in UploadOutcomes :
       LET file == [SampleFile EXCEPT !.name = name]
           original_filename == OriginalFilename(filename, file)
           key == BlobName(user_id, Timestamp(t), Uuid(u), FileExtension(original_filename))
       IN /\ request' = [request EXCEPT ![1] =
                           [gated |-> FALSE, path |-> <<>>, header |-> <<>>, file |-> file,
                            filename |-> filename, user_id |-> user_id]]
          /\ now' = t
          /\ pc' = [pc EXCEPT ![1] = "done"]
          /\ IF o.type # "none"
             THEN /\ response' = [response EXCEPT ![1] =
                       [status |-> 0,
                        raised |-> WrapUpload([type |-> o.type, msg |-> <<o.type>>])]]
                  /\ trace' = [trace EXCEPT ![1].constructed = TRUE,
                                            ![1].gateway_calls = @ + 1,
                                            ![1].backend_calls =
                                              IF o.at = "upload_blob" THEN @ + 1 ELSE @,
                                            ![1].uuid = u,
                                            ![1].failure = o.at]
                  /\ UNCHANGED <<blob_name, store>>
             ELSE /\ response' = [response EXCEPT ![1] =
                       [status |-> 0,
                        result |-> [success |-> TRUE,
                                    blob_name |-> key,
                                    blob_url |-> <<account_name, container_name, key>>,
                                    original_filename |-> original_filename,
                                    size |-> file.size,
                                    content_type |-> file.content_type]]]
                  /\ trace' = [trace EXCEPT ![1].constructed = TRUE,
                                            ![1].gateway_calls = @ + 1,
                                            ![1].backend_calls = @ + 1,
                                            ![1].uuid = u]
                  /\ blob_name' = [blob_name EXCEPT ![1] = key]
                  /\ store' = PutBlob(store, [name |-> key, size |-> file.size])
  /\ UNCHANGED <<user_info, token_validated, account_name>>

KeyNext == UploadFileCall

KeySpec == Init /\ [][KeyNext]_vars

(* ------------------------------- claims -------------------------------- *)

\* the token text the middleware takes from the header of request r
TokenOf(r) == SplitSecond(r.header, Bearer)

\* request i came through the middleware on a path that is not public
GatedPath(i) == request[i].gated /\ ~IsPublicPath(request[i].path)

\* C1: a request on a gated path whose Authorization header is absent or does
\* not start with 'Bearer ' is answered 401 'Missing or invalid Authorization
\* header' and no view is ever invoked for it.
C1_MissingBearerRejected ==
  \A i \in Slots :
    (GatedPath(i) /\ ~StartsWith(request[i].header, Bearer))
      => /\ pc[i] = "done"
         /\ response[i].status = 401
         /\ response[i].body.error = "Missing or invalid Authorization header"
         /\ trace[i] = NoTrace
         /\ user_info[i] = Absent

\* C1 witness: an upload with 'Basic ...' in the header has been answered 401
C1_Witness ==
  \E i \in Slots :
    /\ GatedPath(i)
    /\ request[i].path = PathUpload
    /\ request[i].header = Basic \o <<"Ta">>
    /\ pc[i] = "done"
    /\ response[i].status = 401

\* the exp claim of the token lies before every reading of the clock
ExpInPast(token) ==
  LET p == Parse(token)
  IN p.wellformed /\ "exp" \in DOMAIN p.payload /\ p.payload.exp < 0

\* C2: a request on a gated path with a Bearer token whose exp is in the past
\* is answered 401 'Token expired' and does not reach a view.
C2_ExpiredTokenRejected ==
  \A i \in Slots :
    (GatedPath(i) /\ StartsWith(request[i].header, Bearer) /\ ExpInPast(TokenOf(request[i])))
      => /\ pc[i] = "done"
         /\ response[i].status = 401
         /\ response[i].body.error = "Token expired"
         /\ trace[i].handler = "none"

\* the token of request i decodes, is not expired and has the three claims
ValidToken(i) ==
  /\ StartsWith(request[i].header, Bearer)
  /\ LET p == Parse(TokenOf(request[i]))
     IN /\ p.wellformed
        /\ {"oid", "preferred_username", "name"} \subseteq DOMAIN p.payload
        /\ p.payload.exp > now

\* C3: a request on a gated path with a decodable, unexpired token that has
\* oid, preferred_username and name gets user_info with exactly these three
\* values, token_validated set, and is passed on to the view.
C3_ValidTokenAttachesIdentity ==
  \A i \in Slots :
    (GatedPath(i) /\ ValidToken(i))
      => LET c == Parse(TokenOf(request[i])).payload
         IN /\ user_info[i] = [user_id |-> c.oid, email |-> c.preferred_username,
                               name |-> c.name]
            /\ token_validated[i]
            /\ pc[i] \in {"view", "done"}
            /\ pc[i] = "done" => trace[i].handler \in {"upload", "list"}

\* C3 witness: an upload with such a token has been stored and answered 201
C3_Witness ==
  \E i \in Slots :
    /\ GatedPath(i)
    /\ ValidToken(i)
    /\ pc[i] = "done"
    /\ trace[i].handler = "upload"
    /\ response[i].status = 201

\* C4: a request that reaches FileListView.get without user_info is answered
\* 401 and the storage service is not called.
C4_ListRequiresIdentity ==
  \A i \in Slots :
    (trace[i].handler = "list" /\ user_info[i] = Absent)
      => /\ response[i].status = 401
         /\ trace[i].gateway_calls = 0

\* the entries of a listing whose name begins with '<subject>/'
OwnEntries(listing, subject) ==
  LET own(b) == StartsWith(b.name, subject \o <<"/">>)
      kept == SelectSeq(listing, own)
  IN [k \in 1..Len(kept) |-> [name |-> kept[k].name, size |-> kept[k].size]]

\* C5: a listing answered 200 for a caller with subject id S carries exactly
\* the backend entries whose name begins with 'S/', in the backend's order,
\* and count is their number (0 and an empty sequence when there are none).
C5_ListReturnsOwnEntries ==
  [][\A i \in Slots :
       (/\ pc[i] = "view"
        /\ pc'[i] = "done"
        /\ trace'[i].handler = "list"
        /\ user_info[i] # Absent
        /\ response'[i].status = 200)
         => LET own == OwnEntries(store, user_info[i].user_id)
            IN /\ response'[i].body.data = own
               /\ response'[i].body.count = Len(own)]_vars

\* C6: with requests of different callers in flight together, an upload
\* answered 201 has a blob name that begins with '<oid>/' for the oid of the
\* token of that same request, and with no other request's user id.
C6_KeyCarriesOwnSubject ==
  \A i \in Slots :
    (GatedPath(i) /\ pc[i] = "done" /\ response[i].status = 201)
      => LET oid == Get(Parse(TokenOf(request[i])).payload, "oid", <<>>)
             key == response[i].body.data.blob_name
         IN /\ StartsWith(key, oid \o <<"/">>)
            /\ \A j \in Slots \ {i} :
                 (user_info[j] # Absent /\ user_info[j].user_id \notin {oid, <<>>})
                   => ~StartsWith(key, user_info[j].user_id \o <<"/">>)

\* C7 as claimed: two uploads never have the same blob name.
C7_KeysNeverCollide ==
  \A i, j \in Slots :
    (i # j /\ blob_name[i] # <<>> /\ blob_name[j] # <<>>) => blob_name[i] # blob_name[j]

\* C7 as amended: two uploads for which uuid4 returned different values have
\* different blob names, whatever their owner, second and file name.
C7_DistinctUuidDistinctKey ==
  \A i, j \in Slots :
    (/\ i # j
     /\ blob_name[i] # <<>>
     /\ blob_name[j] # <<>>
     /\ trace[i].uuid # trace[j].uuid)
      => blob_name[i] # blob_name[j]

\* C7 witness: two uploads of x.t by caller a in second 0 with different uuids
C7_Witness ==
  \E i, j \in Slots :
    /\ i # j
    /\ trace[i].uuid # trace[j].uuid
    /\ request[i].file = request[j].file
    /\ StartsWith(blob_name[i], <<"a", "/">> \o Timestamp(0))
    /\ StartsWith(blob_name[j], <<"a", "/">> \o Timestamp(0))

\* C8: an upload of 50 MiB + 1 byte or more is answered 400 'File too large'
\* and the storage service is neither constructed nor called; an upload of
\* 50 MiB or less passes the size check and the storage service is constructed.
C8_SizeCeiling ==
  \A i \in Slots :
    (trace[i].handler = "upload" /\ request[i].file.present)
      => IF request[i].file.size >= 50 * 1024 * 1024 + 1
         THEN /\ pc[i] = "done"
              /\ response[i].status = 400
              /\ response[i].body.error = "File too large"
              /\ ~trace[i].constructed
              /\ trace[i].gateway_calls = 0
              /\ trace[i].backend_calls = 0
         ELSE /\ trace[i].constructed
              /\ response[i].status # 400

\* C8 witness: an upload of 50 MiB + 1 byte refused and one of exactly 50 MiB
\* stored
C8_Witness ==
  \E i, j \in Slots :
    /\ request[i].file.present
    /\ request[i].file.size = 50 * 1024 * 1024 + 1
    /\ response[i].status = 400
    /\ request[j].file.present
    /\ request[j].file.size = 50 * 1024 * 1024
    /\ response[j].status = 201

\* C9: an upload without a 'file' field is answered 400 'No file provided';
\* the storage service is neither constructed nor called.
C9_NoFileRejected ==
  \A i \in Slots :
    (trace[i].handler = "upload" /\ ~request[i].file.present)
      => /\ pc[i] = "done"
         /\ response[i].status = 400
         /\ response[i].body.error = "No file provided"
         /\ ~trace[i].constructed
         /\ trace[i].gateway_calls = 0
         /\ trace[i].backend_calls = 0

\* C9 witness: caller a's upload without a file has been answered
C9_Witness ==
  \E i \in Slots :
    /\ GatedPath(i)
    /\ user_info[i] # Absent
    /\ trace[i].handler = "upload"
    /\ ~request[i].file.present
    /\ response[i].status = 400

\* C10: for an upload that passed the file checks, a missing account name
\* gives 500 'Configuration error', every other failure of the storage
\* service or the backend gives 500 'Upload failed', and no failure is
\* answered with a 2xx status.
C10_UploadFailureLabels ==
  \A i \in Slots :
    (/\ trace[i].handler = "upload"
     /\ pc[i] = "done"
     /\ request[i].file.present
     /\ request[i].file.size <= 50 * 1024 * 1024)
      => /\ account_name = ""
              => response[i].status = 500 /\ response[i].body.error = "Configuration error"
         /\ (account_name # "" /\ trace[i].failure # "none")
              => response[i].status = 500 /\ response[i].body.error = "Upload failed"
         /\ trace[i].failure # "none" => response[i].status \notin 200..299
         /\ response[i].status \in 200..299 => trace[i].failure = "none"

\* C10 witness: get_blob_client raised and the upload was answered 500
C10_Witness ==
  \E i \in Slots :
    /\ trace[i].handler = "upload"
    /\ pc[i] = "done"
    /\ trace[i].failure = "get_blob_client"
    /\ response[i].status = 500


ShapeErrors == {"No file provided", "File too large"}

AuthErrors ==
  {"Missing or invalid Authorization header", "Token expired", "Invalid token",
   "Authentication failed"}

ServerErrors == {"Configuration error", "Upload failed", "Failed to retrieve files"}

\* C13: every failure response of the middleware or of a view has a body of
\* exactly an error label and a message; the status is 400 for the two file
\* checks, 401 for the labels of the middleware and 500 for configuration and
\* backend failures; an upload's response has 'data' only with status 201.
C13_ErrorResponseShape ==
  \A i \in Slots :
    /\ (response[i].status >= 400 /\ trace[i].handler # "other")
         => /\ DOMAIN response[i].body = {"error", "message"}
            /\ response[i].status \in {400, 401, 500}
            /\ response[i].status = 400 <=> response[i].body.error \in ShapeErrors
            /\ response[i].status = 401 <=> response[i].body.error \in AuthErrors
            /\ response[i].status = 500 <=> response[i].body.error \in ServerErrors
            /\ response[i].status = 401 <=> trace[i].handler = "none"
    /\ (trace[i].handler = "upload" /\ response[i].status # 0)
         => ("data" \in DOMAIN response[i].body <=> response[i].status = 201)

\* C13 witness: an upload refused with 400 and one that failed at the backend
\* after its blob name was built, answered 500
C13_Witness ==
  \E i, j \in Slots :
    /\ trace[i].handler = "upload" /\ response[i].status = 400
    /\ trace[j].handler = "upload" /\ response[j].status = 500
    /\ trace[j].failure = "upload_blob"

\* the path begins with '/admin/' or '/api/health/'
OnAllowList(path) == StartsWith(path, PathAdmin) \/ StartsWith(path, PathHealth)

\* C14: a request whose path begins with '/admin/' or '/api/health/' goes to
\* the handler without a 401 and without user_info or token_validated, also
\* when it carries a valid Bearer token.
C14_AllowListSkipsGate ==
  \A i \in Slots :
    (request[i].gated /\ OnAllowList(request[i].path))
      => /\ pc[i] \in {"view", "done"}
         /\ user_info[i] = Absent
         /\ ~token_validated[i]
         /\ response[i].status # 401
         /\ pc[i] = "done" => trace[i].handler \in {"health", "other"}

\* C14 witness: a request below /admin/ and a health request, both with caller
\* a's valid token, have reached their handlers
C14_Witness ==
  \E i, j \in Slots :
    /\ request[i].path = PathAdminLogin
    /\ request[i].header = Bearer \o <<"Ta">>
    /\ trace[i].handler = "other"
    /\ request[j].path = PathHealth
    /\ request[j].header = Bearer \o <<"Ta">>
    /\ trace[j].handler = "health"

\* the middleware rejects request i: no 'Bearer ' header, or a token that
\* does not decode
GateRejects(i) ==
  /\ GatedPath(i)
  /\ \/ ~StartsWith(request[i].header, Bearer)
     \/ ~Parse(TokenOf(request[i])).wellformed

\* C15: a request the middleware rejects ends with 401 and a body of an
\* error label and a message, with no view invoked, no identity attached and
\* no storage call; and once a request has its 401 nothing more happens to it.
C15_RejectionIsFinal ==
  /\ [](\A i \in Slots :
          GateRejects(i)
            => /\ pc[i] = "done"
               /\ response[i].status = 401
               /\ DOMAIN response[i].body = {"error", "message"}
               /\ trace[i] = NoTrace
               /\ user_info[i] = Absent
               /\ ~token_validated[i]
               /\ blob_name[i] = <<>>)
  /\ [][\A i \in Slots :
          response[i].status = 401
            => /\ pc'[i] = "done"
               /\ response'[i] = response[i]
               /\ trace'[i] = NoTrace
               /\ user_info'[i] = Absent
               /\ blob_name'[i] = <<>>]_vars

\* C15 witness: an upload with an undecodable token was rejected and another
\* request has been stored since
C15_Witness ==
  \E i, j \in Slots :
    /\ i < j
    /\ request[i].path = PathUpload
    /\ request[i].header = Bearer \o <<"Tm">>
    /\ response[i].status = 401
    /\ response[j].status = 201

\* C16: on a gated path a token whose exp is in the past is answered 401
\* 'Token expired', a token that does not decode 401 'Invalid token', and no
\* request gets more than one of the labels.
C16_RejectionLabels ==
  \A i \in Slots :
    (GatedPath(i) /\ StartsWith(request[i].header, Bearer))
      => LET token == TokenOf(request[i])
         IN /\ ExpInPast(token)
                 => /\ response[i].status = 401
                    /\ response[i].body.error = "Token expired"
            /\ ~Parse(token).wellformed
                 => /\ response[i].status = 401
                    /\ response[i].body.error = "Invalid token"


\* C17: the blob name of a successful upload_file call is the user id and
\* '/' (only when a user id is given), the timestamp, '_', the uuid, '.' and
\* the extension; the extension has no '.', is the end of the declared file
\* name after a '.', and is empty when that name has no '.'; the declared
\* name is the filename argument when given and the file's name otherwise.
C17_KeyShape ==
  \A i \in Slots :
    "result" \in DOMAIN response[i]
      => LET r == request[i]
             declared == IF r.filename # <<>> THEN r.filename ELSE r.file.name
             key == response[i].result.blob_name
             L == IF r.user_id # <<>> THEN Len(r.user_id) + 1 ELSE 0
             ext == SubSeq(key, L + 20, Len(key))
         IN /\ Len(key) >= L + 19
            /\ r.user_id # <<>> => SubSeq(key, 1, L) = r.user_id \o <<"/">>
            /\ SubSeq(key, L + 1, L + 15) = Timestamp(now)
            /\ key[L + 16] = "_"
            /\ SubSeq(key, L + 17, L + 18) = Uuid(trace[i].uuid)
            /\ key[L + 19] = "."
            /\ "." \notin Range(ext)
            /\ IF "." \in Range(declared)
               THEN /\ Len(declared) > Len(ext)
                    /\ SubSeq(declared, Len(declared) - Len(ext), Len(declared))
                         = <<".">> \o ext
               ELSE ext = <<>>
            /\ response[i].result.original_filename = declared

\* C17 witness: a file with two dots in its name stored for user a under its
\* own name, with extension c
C17_Witness ==
  \E i \in Slots :
    /\ "result" \in DOMAIN response[i]
    /\ request[i].filename = <<>>
    /\ request[i].user_id = <<"a">>
    /\ request[i].file.name = <<"a", ".", "b", ".", "c">>
    /\ response[i].result.blob_name
         = <<"a", "/">> \o Timestamp(now) \o <<"_">> \o Uuid(trace[i].uuid) \o <<".", "c">>

\* C18: an upload_file call that fails at get_blob_client or at upload_blob
\* raises a plain Exception whose message ends with the message of the
\* original failure, returns no dict, leaves the container as it was, and has
\* sent upload_blob to the backend at most once.
C18_UploadFailureWrapped ==
  \A i \in Slots :
    /\ trace[i].backend_calls <= 1
    /\ trace[i].failure # "none"
         => /\ "raised" \in DOMAIN response[i]
            /\ "result" \notin DOMAIN response[i]
            /\ response[i].raised.type = "Exception"
            /\ \E o \in UploadOutcomes :
                 /\ o.at = trace[i].failure
                 /\ response[i].raised.msg
                      = <<"Failed to upload file to Azure Blob Storage: ", o.type>>
            /\ blob_name[i] = <<>>
            /\ store \in InitialStores

\* C18 witness: a call whose upload_blob raised
C18_Witness ==
  \E i \in Slots :
    /\ trace[i].failure = "upload_blob"
    /\ trace[i].backend_calls = 1
    /\ "raised" \in DOMAIN response[i]


\* the subject ids of the callers whose token has an oid
KnownSubjects == {<<"a">>, <<"b">>}

\* C19: for a caller that passed the gate, with or without an oid in the
\* token, a listing answered 200 has no entry stored under another caller's
\* subject id, and the blob name of an upload answered 201 is in no listing
\* returned to a caller with another subject id.
C19_OwnerIsolation ==
  \A i \in Slots :
    (GatedPath(i) /\ user_info[i] # Absent /\ pc[i] = "done")
      => /\ (trace[i].handler = "list" /\ response[i].status = 200)
              => \A k \in 1..Len(response[i].body.data) :
                   \A o \in KnownSubjects \ {user_info[i].user_id} :
                     ~StartsWith(response[i].body.data[k].name, o \o <<"/">>)
         /\ (trace[i].handler = "upload" /\ response[i].status = 201)
              => \A j \in Slots \ {i} :
                   (/\ GatedPath(j)
                    /\ user_info[j] # Absent
                    /\ user_info[j].user_id # user_info[i].user_id
                    /\ trace[j].handler = "list"
                    /\ response[j].status = 200
                    /\ user_info[j].user_id # <<>>)
                     => \A k \in 1..Len(response[j].body.data) :
                          response[j].body.data[k].name # response[i].body.data.blob_name

\* the names and the objects of a container listing
Names(listing) == {listing[k].name : k \in 1..Len(listing)}

Objects(listing) == {listing[k] : k \in 1..Len(listing)}

\* request i is answered 201 in this step
Stored(i) == pc[i] = "view" /\ pc'[i] = "done" /\ response'[i].status = 201

\* C20 as claimed: the container changes only in a step that answers an
\* upload with 201, and every such step adds exactly one new name and leaves
\* every object that was there.
C20_UploadsOnlyAdd ==
  [][/\ store' # store => \E i \in Slots : Stored(i)
     /\ \A i \in Slots :
          Stored(i)
            => /\ response'[i].body.data.blob_name \notin Names(store)
               /\ Len(store') = Len(store) + 1
               /\ Objects(store) \subseteq Objects(store')]_vars

\* C20 as amended: the container changes only in a step that answers an
\* upload with 201; such a step writes the one object of its blob name, which
\* is added when the name is new and replaces the object of that name
\* otherwise; every object of another name stays as it was.
C20_UploadsWriteOneKey ==
  [][/\ store' # store => \E i \in Slots : Stored(i)
     /\ \A i \in Slots :
          Stored(i)
            => LET key == response'[i].body.data.blob_name
               IN /\ Names(store') = Names(store) \cup {key}
                  /\ Len(store') = Cardinality(Names(store'))
                  /\ {b \in Objects(store) : b.name # key} \subseteq Objects(store')
                  /\ [name |-> key, size |-> request[i].file.size] \in Objects(store')
                  /\ key \notin Names(store) => Len(store') = Len(store) + 1]_vars

\* C20 witness: an upload answered 201 has added a second object, and an upload
\* that failed at the backend is answered 500
C20_Witness ==
  \E i, j \in Slots :
    /\ response[i].status = 201
    /\ Len(store) = 2
    /\ trace[j].handler = "upload"
    /\ response[j].status = 500

====
